---- MODULE Spec2Model ----
(***************************************************************************)
(* Model of the book/author REST API of advanced-api-project (api/):      *)
(* the store (models.py), the list endpoint with its three filter         *)
(* backends (views.py, filters.py) and the write endpoints (views.py,     *)
(* serializers.py).                                                       *)
(*                                                                         *)
(* Text is modelled as a sequence of one-character strings, so that case  *)
(* folding, substring search, splitting and number parsing are computed   *)
(* and not assumed.                                                        *)
(***************************************************************************)
EXTENDS Integers, Sequences, FiniteSets, TLC

VARIABLES
    authors,         \* Author table: pk -> name
    books,           \* Book table: pk -> [title, publication_year, author]
    next_id,         \* next Book pk handed out by the database
    current_year,    \* datetime.now().year
    search_lookup,   \* whether the ORM knows the 'search' lookup (django.contrib.postgres)
    resp,            \* the response to the last request
    prev,            \* the response before it, when the client repeated its query
    fetched,         \* the pages a paging client has collected so far
    running,         \* the list requests in progress, one per concurrent client
    relations,       \* relationship_app tables: authors, books, libraries, librarians
    profiles,        \* relationship_app: the user profile (role) of each user, if any
    shelf,           \* bookshelf tables: the books and the next pk
    out              \* the outcome of the last helper call or page request

vars == <<authors, books, next_id, current_year, search_lookup, resp, prev, fetched,
          running, relations, profiles, shelf, out>>

\* The state of the API project, and the state outside it.
api == <<authors, books, next_id, current_year, search_lookup, resp, prev, fetched>>

apps == <<running, relations, profiles, shelf, out>>

store == <<authors, books, next_id, current_year, search_lookup>>

(***************************************************************************)
(* Bounds of the model.                                                    *)
(***************************************************************************)
\* Book primary keys handed out in one behaviour.
MaxBooks == 2

(***************************************************************************)
(* Text.                                                                   *)
(***************************************************************************)
\* An empty (skipped) value, and a value that is there.
Nothing == [some |-> FALSE]

Some(v) == [some |-> TRUE, v |-> v]

Digits == {"0", "1", "2", "3", "4", "5", "6", "7", "8", "9"}

\* str.lower() on the letters the model uses.
Lower(c) ==
    CASE c = "A" -> "a"
      [] c = "B" -> "b"
      [] c = "F" -> "f"
      [] c = "T" -> "t"
      [] OTHER -> c

LowerStr(s) == [i \in 1..Len(s) |-> Lower(s[i])]

\* Code point of a character, the order of the database's binary collation.
Code(c) ==
    CASE c = " " -> 32
      [] c = "A" -> 65
      [] c = "B" -> 66
      [] c = "a" -> 97
      [] c = "b" -> 98
      [] c = "s" -> 115
      [] OTHER -> 0

\* s sorts strictly before t, comparing code points left to right.
StrLess(s, t) ==
    \E k \in 0..Len(s) :
        /\ k <= Len(t)
        /\ \A i \in 1..k : s[i] = t[i]
        /\ \/ k = Len(s) /\ k < Len(t)
           \/ k < Len(s) /\ k < Len(t) /\ Code(s[k + 1]) < Code(t[k + 1])

\* needle is a contiguous part of hay (case-sensitive).
Contains(hay, needle) ==
    \E i \in 0..(Len(hay) - Len(needle)) :
        \A j \in 1..Len(needle) : hay[i + j] = needle[j]

\* The icontains lookup: LIKE '%needle%', letters compared without case.
IContains(hay, needle) == Contains(LowerStr(hay), LowerStr(needle))

\* The iexact lookup.
IExact(a, b) == LowerStr(a) = LowerStr(b)

DigitValue(c) ==
    CASE c = "0" -> 0 [] c = "1" -> 1 [] c = "2" -> 2 [] c = "3" -> 3
      [] c = "4" -> 4 [] c = "5" -> 5 [] c = "6" -> 6 [] c = "7" -> 7
      [] c = "8" -> 8 [] c = "9" -> 9 [] OTHER -> 0

IsNumber(raw) == Len(raw) > 0 /\ \A i \in 1..Len(raw) : raw[i] \in Digits

RECURSIVE ToNumber(_)
ToNumber(raw) ==
    IF raw = <<>> THEN 0
    ELSE 10 * ToNumber(SubSeq(raw, 1, Len(raw) - 1)) + DigitValue(raw[Len(raw)])

\* str.split on the separator characters seps: the non-empty pieces of s.
RECURSIVE SplitOn(_, _, _, _)
SplitOn(s, seps, cur, acc) ==
    IF s = <<>> THEN (IF cur = <<>> THEN acc ELSE Append(acc, cur))
    ELSE IF Head(s) \in seps
         THEN SplitOn(Tail(s), seps, <<>>, IF cur = <<>> THEN acc ELSE Append(acc, cur))
         ELSE SplitOn(Tail(s), seps, Append(cur, Head(s)), acc)

Range(f) == {f[x] : x \in DOMAIN f}

(***************************************************************************)
(* The store.                                                              *)
(***************************************************************************)
Titles == { <<"A", "b">>, <<"a", "a", " ", "b">> }

AuthorNames == { <<"B", "a">>, <<"a", "b">> }

BookYears == {1949, 2014}

InitialAuthors == (1 :> <<"B", "a">>) @@ (2 :> <<"a", "b">>)

StartYear == 2024

Book(title, year, author) ==
    [title |-> title, publication_year |-> year, author |-> author]

\* The clients that send list requests at the same time.
Clients == {"c1", "c2"}

\* The users of the sites.
Users == {"ann", "bob"}

\* The relationship_app tables before anything is saved; accessor says
\* whether Author has the reverse accessor 'books' (related_name of
\* Book.author).
NoRelations ==
    [authors |-> << >>, books |-> << >>, libraries |-> << >>, librarians |-> << >>,
     accessor |-> TRUE]

\* No user has a profile; models.py does not define UserProfile.
NoProfiles == [model |-> FALSE, role |-> [u \in Users |-> Nothing]]

\* The bookshelf Book table, empty; next is the primary key to hand out.
NoShelf == [books |-> {}, next |-> 1]

Init ==
    /\ authors = InitialAuthors
    /\ books = << >>
    /\ next_id = 1
    /\ current_year = StartYear
    /\ search_lookup \in BOOLEAN
    /\ resp = [kind |-> "none"]
    /\ prev = [kind |-> "none"]
    /\ fetched = [kind |-> "none"]
    /\ running = [c \in Clients |-> [stage |-> "idle"]]
    /\ relations = NoRelations
    /\ profiles = NoProfiles
    /\ shelf = NoShelf
    /\ out = [kind |-> "none"]

(***************************************************************************)
(* Requests.  query_params maps the names the client supplied to their    *)
(* raw text.                                                               *)
(***************************************************************************)
Supplied(req, name) == name \in DOMAIN req

(***************************************************************************)
(* BookFilter (filters.py): the declared filters, and those generated      *)
(* from Meta.fields.  A declared filter replaces the generated filter of   *)
(* the same name (title, publication_year, author).                        *)
(***************************************************************************)
DeclaredBookFilters ==
    [ title            |-> [kind |-> "char",   field |-> "title",            lookup |-> "icontains"],
      author           |-> [kind |-> "choice", field |-> "author",           lookup |-> "exact"],
      author_name      |-> [kind |-> "char",   field |-> "author__name",     lookup |-> "icontains"],
      publication_year |-> [kind |-> "number", field |-> "publication_year", lookup |-> "exact"],
      year_from        |-> [kind |-> "number", field |-> "publication_year", lookup |-> "gte"],
      year_to          |-> [kind |-> "number", field |-> "publication_year", lookup |-> "lte"],
      recent_books     |-> [kind |-> "boolean", field |-> "recent_books",    lookup |-> "method"] ]

MetaBookFilters ==
    [ title__icontains        |-> [kind |-> "char",   field |-> "title",            lookup |-> "icontains"],
      publication_year__gte   |-> [kind |-> "number", field |-> "publication_year", lookup |-> "gte"],
      publication_year__lte   |-> [kind |-> "number", field |-> "publication_year", lookup |-> "lte"],
      publication_year__gt    |-> [kind |-> "number", field |-> "publication_year", lookup |-> "gt"],
      publication_year__lt    |-> [kind |-> "number", field |-> "publication_year", lookup |-> "lt"],
      author__name__icontains |-> [kind |-> "char",   field |-> "author__name",     lookup |-> "icontains"],
      author__name            |-> [kind |-> "char",   field |-> "author__name",     lookup |-> "exact"] ]

BookFilter == DeclaredBookFilters @@ MetaBookFilters

\* The order in which the filter set applies its filters.
BookFilterOrder ==
    << "title", "author", "author_name", "publication_year", "year_from", "year_to",
       "recent_books", "title__icontains", "publication_year__gte",
       "publication_year__lte", "publication_year__gt", "publication_year__lt",
       "author__name__icontains", "author__name" >>

\* django_filters.BooleanFilter (NullBooleanField, NullBooleanSelect): the text
\* of a flag is True, False or, for any other text, nothing.
BooleanValue(raw) ==
    IF raw \in { <<"T", "r", "u", "e">>, <<"t", "r", "u", "e">>, <<"2">> } THEN Some(TRUE)
    ELSE IF raw \in { <<"F", "a", "l", "s", "e">>, <<"f", "a", "l", "s", "e">>, <<"3">> }
    THEN Some(FALSE)
    ELSE Nothing

\* FieldValid with the number filters declared as text filters.
FieldValidNoNumbers(f, raw, auth) ==
    CASE f.kind = "choice" -> raw = <<>> \/ (IsNumber(raw) /\ ToNumber(raw) \in DOMAIN auth)
      [] OTHER -> TRUE

\* Whether the form field of a filter accepts the raw text.
FieldValid(f, raw, auth) ==
    CASE f.kind = "number" -> raw = <<>> \/ IsNumber(raw)
      [] f.kind = "choice" -> raw = <<>> \/ (IsNumber(raw) /\ ToNumber(raw) \in DOMAIN auth)
      [] OTHER -> TRUE

\* The cleaned value of a valid field; Nothing is an empty value, which the
\* filter skips.
CleanValue(f, raw) ==
    CASE raw = <<>> -> Nothing
      [] f.kind \in {"number", "choice"} -> Some(ToNumber(raw))
      [] f.kind = "boolean" -> BooleanValue(raw)
      [] OTHER -> Some(raw)

\* FormErrors that stops at the first field it rejects.
FormErrorsRejectOnFirst(filterset, req, auth) ==
    LET bad == { n \in DOMAIN req \cap DOMAIN filterset : ~FieldValid(filterset[n], req[n], auth) }
    IN IF bad = {} THEN {} ELSE { CHOOSE n \in bad : TRUE }

\* FormErrors of a strict form, which also rejects the names it does not know.
FormErrorsStrict(filterset, req, auth) ==
    { n \in DOMAIN req : n \notin DOMAIN filterset \/ ~FieldValid(filterset[n], req[n], auth) }

\* form.errors of a filter set: every supplied filter whose text its field rejects.
FormErrors(filterset, req, auth) ==
    { n \in DOMAIN req \cap DOMAIN filterset : ~FieldValid(filterset[n], req[n], auth) }

FilterErrors(req, auth) == FormErrors(BookFilter, req, auth)

\* The value of a (possibly related) field of book b.
FieldOf(b, field, auth, bks) ==
    CASE field = "title" -> bks[b].title
      [] field = "publication_year" -> bks[b].publication_year
      [] field = "author" -> bks[b].author
      [] field = "author__name" -> auth[bks[b].author]
      [] field = "id" -> b
      [] field = "name" -> auth[b]

\* LookupHolds with lte compiled as a strict comparison.
LookupHoldsStrictLte(lookup, x, v) ==
    CASE lookup = "icontains" -> IContains(x, v)
      [] lookup = "exact" -> x = v
      [] lookup = "gte" -> x >= v
      [] lookup = "lte" -> x < v
      [] lookup = "gt" -> x > v
      [] lookup = "lt" -> x < v

LookupHolds(lookup, x, v) ==
    CASE lookup = "icontains" -> IContains(x, v)
      [] lookup = "exact" -> x = v
      [] lookup = "gte" -> x >= v
      [] lookup = "lte" -> x <= v
      [] lookup = "gt" -> x > v
      [] lookup = "lt" -> x < v

\* filter_recent_books with the threshold year left out.
filter_recent_books_After(queryset, value, bks, year) ==
    IF value
    THEN { b \in queryset : bks[b].publication_year > year - 10 }
    ELSE queryset

\* BookFilter.filter_recent_books
filter_recent_books(queryset, value, bks, year) ==
    IF value
    THEN { b \in queryset : bks[b].publication_year >= year - 10 }
    ELSE queryset

\* Filter.filter: one filter applied to a queryset (a set of book pks).
ApplyFilter(queryset, f, value, auth, bks, year) ==
    IF ~value.some THEN queryset
    ELSE IF f.lookup = "method" THEN filter_recent_books(queryset, value.v, bks, year)
    ELSE { b \in queryset : LookupHolds(f.lookup, FieldOf(b, f.field, auth, bks), value.v) }

\* FilterSet.filter_queryset: the supplied filters applied one after another.
RECURSIVE FilterQueryset(_, _, _, _, _, _)
FilterQueryset(queryset, req, names, auth, bks, year) ==
    IF names = <<>> THEN queryset
    ELSE LET n == Head(names)
             next == IF Supplied(req, n)
                     THEN ApplyFilter(queryset, BookFilter[n], CleanValue(BookFilter[n], req[n]),
                                      auth, bks, year)
                     ELSE queryset
         IN FilterQueryset(next, req, Tail(names), auth, bks, year)

(***************************************************************************)
(* SearchFilter (views.py: search_fields).                                 *)
(***************************************************************************)
\* search_fields with their prefixes resolved to ORM lookups.
search_fields ==
    << [field |-> "title",        lookup |-> "icontains"],
       [field |-> "author__name", lookup |-> "icontains"],
       [field |-> "title",        lookup |-> "iexact"],      \* '=title'
       [field |-> "title",        lookup |-> "search"] >>    \* '@title'

\* get_search_terms: commas become blanks, then the text is split at blanks.
SearchTerms(req) ==
    IF Supplied(req, "search") THEN SplitOn(req["search"], {" ", ","}, <<>>, <<>>) ELSE <<>>

\* The lexeme of a word of a text-search document: case folded, and a plural
\* "s" removed (what the stemmer of the text-search configuration does to
\* the words of this model).
Stem(w) ==
    LET l == LowerStr(w) IN
    IF Len(l) > 1 /\ l[Len(l)] = "s" THEN SubSeq(l, 1, Len(l) - 1) ELSE l

Lexemes(text) == { Stem(w) : w \in Range(SplitOn(text, {" ", ","}, <<>>, <<>>)) }

\* The 'search' lookup: to_tsvector(text) @@ plainto_tsquery(term).
FullTextMatch(text, term) ==
    /\ Lexemes(term) # {}
    /\ Lexemes(term) \subseteq Lexemes(text)

SearchLookupHolds(lookup, x, term) ==
    CASE lookup = "icontains" -> IContains(x, term)
      [] lookup = "iexact" -> IExact(x, term)
      [] lookup = "search" -> FullTextMatch(x, term)

\* One term matches a book when any search field matches it (OR).
TermMatches(b, term, auth, bks) ==
    \E i \in DOMAIN search_fields :
        SearchLookupHolds(search_fields[i].lookup,
                          FieldOf(b, search_fields[i].field, auth, bks), term)

\* The lookups of search_fields the ORM does not know: building the query
\* with one of them raises FieldError.
UnsupportedLookups(lookup_known) ==
    { search_fields[i].lookup : i \in DOMAIN search_fields } \cap
        (IF lookup_known THEN {} ELSE {"search"})

\* SearchFilter.filter_queryset: every term must match (AND).
SearchQueryset(queryset, req, auth, bks) ==
    LET terms == SearchTerms(req) IN
    { b \in queryset : \A i \in DOMAIN terms : TermMatches(b, terms[i], auth, bks) }

(***************************************************************************)
(* OrderingFilter (views.py: ordering_fields, ordering).  The raw ordering *)
(* text is a sequence of tokens: field names, "-", "," and " ".            *)
(***************************************************************************)
ordering_fields == {"title", "publication_year", "author__name", "id"}

\* BookListView.ordering, the default.
ordering == << <<"title">> >>

\* param.strip()
RECURSIVE Strip(_)
Strip(term) ==
    IF term # <<>> /\ Head(term) = " " THEN Strip(Tail(term))
    ELSE IF term # <<>> /\ term[Len(term)] = " " THEN Strip(SubSeq(term, 1, Len(term) - 1))
    ELSE term

\* remove_invalid_fields: a term is one of the view's ordering fields, or "-"
\* and one.
TermValid(term, valid_fields) ==
    \/ Len(term) = 1 /\ term[1] \in valid_fields
    \/ Len(term) = 2 /\ term[1] = "-" /\ term[2] \in valid_fields

\* get_ordering: the valid terms of ?ordering=, or the view's default when
\* the parameter is absent or no term of it is valid.
GetOrderingOf(req, valid_fields, default) ==
    LET fields == IF Supplied(req, "ordering")
                  THEN SplitOn(req["ordering"], {","}, <<>>, <<>>)
                  ELSE <<>>
        stripped == [i \in DOMAIN fields |-> Strip(fields[i])]
        Valid(term) == TermValid(term, valid_fields)
        valid == SelectSeq(stripped, Valid)
    IN IF valid # <<>> THEN valid ELSE default

GetOrdering(req) == GetOrderingOf(req, ordering_fields, ordering)

Descending(term) == term[1] = "-"

FieldName(term) == term[Len(term)]

\* x sorts strictly before y in ascending order of the field.
ValueLess(field, x, y) ==
    IF field \in {"title", "author__name", "name"} THEN StrLess(x, y) ELSE x < y

\* Before with the "-" of a term ignored: every term sorts ascending.
RECURSIVE BeforeAscending(_, _, _, _, _)
BeforeAscending(a, b, terms, auth, bks) ==
    IF terms = <<>> THEN FALSE
    ELSE LET f == FieldName(Head(terms))
             x == FieldOf(a, f, auth, bks)
             y == FieldOf(b, f, auth, bks)
         IN IF x = y THEN BeforeAscending(a, b, Tail(terms), auth, bks)
            ELSE ValueLess(f, x, y)

\* ORDER BY terms: book a must come before book b.
RECURSIVE Before(_, _, _, _, _)
Before(a, b, terms, auth, bks) ==
    IF terms = <<>> THEN FALSE
    ELSE LET f == FieldName(Head(terms))
             x == FieldOf(a, f, auth, bks)
             y == FieldOf(b, f, auth, bks)
         IN IF x = y THEN Before(a, b, Tail(terms), auth, bks)
            ELSE IF Descending(Head(terms)) THEN ValueLess(f, y, x)
            ELSE ValueLess(f, x, y)

Arrangements(S) ==
    { p \in [1..Cardinality(S) -> S] : \A i, j \in DOMAIN p : i # j => p[i] # p[j] }

\* queryset.order_by(*terms): the orders in which the database may return
\* the rows.  Rows that tie on every term come in an order the database
\* chooses; order_by replaces Meta.ordering, so nothing in the query fixes it.
OrderBy(queryset, terms, auth, bks) ==
    { p \in Arrangements(queryset) :
        \A i, j \in DOMAIN p : i < j => ~Before(p[j], p[i], terms, auth, bks) }

(***************************************************************************)
(* Pagination: skip offset records, return at most limit.                  *)
(***************************************************************************)
Offset(req) == IF Supplied(req, "offset") THEN ToNumber(req["offset"]) ELSE 0

\* Without a limit the page holds everything from the offset on.
Limit(req, n) == IF Supplied(req, "limit") THEN ToNumber(req["limit"]) ELSE n

Min(a, b) == IF a < b THEN a ELSE b

Page(rows, offset, limit) == SubSeq(rows, offset + 1, Min(offset + limit, Len(rows)))

\* The count reported with a page: the matches before pagination.
Count(rows) == Len(rows)

Paginate(rows, req) ==
    [ results |-> Page(rows, Offset(req), Limit(req, Len(rows))),
      count |-> Count(rows) ]

(***************************************************************************)
(* BookListView: GET /books/                                               *)
(***************************************************************************)
\* The responses the list view may give to req on a store.
BookListResponses(req, auth, bks, year, lookup_known) ==
    LET all == DOMAIN bks
        errors == FilterErrors(req, auth)
        filtered == FilterQueryset(all, req, BookFilterOrder, auth, bks, year)
    IN IF errors # {}
       THEN { [kind |-> "book_list", req |-> req, status |-> 400, errors |-> errors] }
       ELSE IF SearchTerms(req) # <<>> /\ UnsupportedLookups(lookup_known) # {}
       THEN { [kind |-> "book_list", req |-> req, status |-> 500, error |-> "FieldError"] }
       ELSE { [kind |-> "book_list", req |-> req, status |-> 200] @@ Paginate(rows, req) :
                rows \in OrderBy(SearchQueryset(filtered, req, auth, bks),
                                 GetOrdering(req), auth, bks) }

ListBooks(req) ==
    /\ resp' \in BookListResponses(req, authors, books, current_year, search_lookup)
    /\ UNCHANGED apps
    /\ prev' = [kind |-> "none"]
    /\ fetched' = [kind |-> "none"]
    /\ UNCHANGED store

(***************************************************************************)
(* AuthorFilter (filters.py) and AuthorListView (views.py): GET /authors/  *)
(* A row of the author queryset is <<author pk, book pk>>: the book is 0   *)
(* until a filter joins the books table, which yields one row per book.    *)
(***************************************************************************)
AuthorFilter ==
    [ name            |-> [kind |-> "char",    field |-> "name",      lookup |-> "icontains"],
      has_books       |-> [kind |-> "boolean", field |-> "has_books", lookup |-> "method"],
      name__icontains |-> [kind |-> "char",    field |-> "name",      lookup |-> "icontains"] ]

AuthorFilterOrder == << "name", "has_books", "name__icontains" >>

author_search_fields == << [field |-> "name", lookup |-> "icontains"] >>

author_ordering_fields == {"name", "id"}

author_ordering == << <<"name">> >>

BooksOf(a, bks) == { b \in DOMAIN bks : bks[b].author = a }

\* queryset.distinct()
Distinct(rows) == { <<r[1], 0>> : r \in rows }

\* filter_has_books without distinct(): one row per book of an author.
filter_has_books_NoDistinct(rows, value, bks) ==
    IF value
    THEN UNION { { <<r[1], b>> : b \in BooksOf(r[1], bks) } : r \in rows }
    ELSE { r \in rows : BooksOf(r[1], bks) = {} }

\* AuthorFilter.filter_has_books
filter_has_books(rows, value, bks) ==
    IF value
    THEN Distinct(UNION { { <<r[1], b>> : b \in BooksOf(r[1], bks) } : r \in rows })
    ELSE { r \in rows : BooksOf(r[1], bks) = {} }

ApplyAuthorFilter(rows, f, value, auth, bks) ==
    IF ~value.some THEN rows
    ELSE IF f.lookup = "method" THEN filter_has_books(rows, value.v, bks)
    ELSE { r \in rows : LookupHolds(f.lookup, FieldOf(r[1], f.field, auth, bks), value.v) }

RECURSIVE AuthorFilterQueryset(_, _, _, _, _)
AuthorFilterQueryset(rows, req, names, auth, bks) ==
    IF names = <<>> THEN rows
    ELSE LET n == Head(names)
             next == IF Supplied(req, n)
                     THEN ApplyAuthorFilter(rows, AuthorFilter[n],
                                            CleanValue(AuthorFilter[n], req[n]), auth, bks)
                     ELSE rows
         IN AuthorFilterQueryset(next, req, Tail(names), auth, bks)

AuthorSearchQueryset(rows, req, auth, bks) ==
    LET terms == SearchTerms(req) IN
    { r \in rows : \A i \in DOMAIN terms : \E k \in DOMAIN author_search_fields :
        SearchLookupHolds(author_search_fields[k].lookup,
                          FieldOf(r[1], author_search_fields[k].field, auth, bks), terms[i]) }

AuthorOrderBy(rows, terms, auth, bks) ==
    { [i \in DOMAIN p |-> p[i][1]] : p \in
        { q \in Arrangements(rows) :
            \A i, j \in DOMAIN q : i < j => ~Before(q[j][1], q[i][1], terms, auth, bks) } }

AuthorListResponses(req, auth, bks) ==
    LET all == { <<a, 0>> : a \in DOMAIN auth }
        errors == FormErrors(AuthorFilter, req, auth)
        filtered == AuthorFilterQueryset(all, req, AuthorFilterOrder, auth, bks)
    IN IF errors # {}
       THEN { [kind |-> "author_list", req |-> req, status |-> 400, errors |-> errors] }
       ELSE { [kind |-> "author_list", req |-> req, status |-> 200] @@ Paginate(rows, req) :
                rows \in AuthorOrderBy(AuthorSearchQueryset(filtered, req, auth, bks),
                                       GetOrderingOf(req, author_ordering_fields, author_ordering),
                                       auth, bks) }

ListAuthors(req) ==
    /\ resp' \in AuthorListResponses(req, authors, books)
    /\ UNCHANGED apps
    /\ prev' = [kind |-> "none"]
    /\ fetched' = [kind |-> "none"]
    /\ UNCHANGED store

(***************************************************************************)
(* BookSerializer (serializers.py) and the write views (views.py).  The    *)
(* data of a write request maps the fields the client sent to their value. *)
(***************************************************************************)
\* validate_publication_year that accepts every year.
validate_publication_year_Unchecked(value, year) == TRUE

\* BookSerializer.validate_publication_year
validate_publication_year(value, year) == value <= year

\* A serializer that stops at the first field in error.
SerializerErrorsFirstOnly(data, partial, auth, year) ==
    LET all == { f \in {"title", "publication_year", "author"} :
                  IF f \notin DOMAIN data THEN ~partial
                  ELSE CASE f = "title" -> data[f] = <<>>
                         [] f = "publication_year" -> ~validate_publication_year(data[f], year)
                         [] f = "author" -> data[f] \notin DOMAIN auth }
    IN IF all = {} THEN {} ELSE { CHOOSE f \in all : TRUE }

\* serializer.errors: the fields that are required and missing, or invalid.
SerializerErrors(data, partial, auth, year) ==
    { f \in {"title", "publication_year", "author"} :
        IF f \notin DOMAIN data THEN ~partial
        ELSE CASE f = "title" -> data[f] = <<>>
               [] f = "publication_year" -> ~validate_publication_year(data[f], year)
               [] f = "author" -> data[f] \notin DOMAIN auth }

\* permission_classes = [IsAuthenticatedOrReadOnly] of a view that lets every
\* client write.
IsAuthenticatedAllowAny(authenticated) == TRUE

\* permission_classes = [IsAuthenticated]: the request comes from a user.
IsAuthenticated(authenticated) == authenticated

\* The request a write response answers.
Request(authenticated, data, partial) ==
    [authenticated |-> authenticated, data |-> data, partial |-> partial]

\* BookCreateView.create (permission_classes = [IsAuthenticated])
CreateBook(authenticated, data) ==
    LET errors == SerializerErrors(data, FALSE, authors, current_year)
        request == Request(authenticated, data, FALSE)
    IN
    /\ UNCHANGED apps
    /\ prev' = [kind |-> "none"]
    /\ fetched' = [kind |-> "none"]
    /\ UNCHANGED <<authors, current_year, search_lookup>>
    /\ IF ~IsAuthenticated(authenticated)
       THEN /\ resp' = [kind |-> "book_create", status |-> 401] @@ request
            /\ UNCHANGED <<books, next_id>>
       ELSE IF errors # {}
       THEN /\ resp' = [kind |-> "book_create", status |-> 400,
                        message |-> "Failed to create book", errors |-> errors] @@ request
            /\ UNCHANGED <<books, next_id>>
       ELSE /\ next_id <= MaxBooks
            /\ books' = books @@ (next_id :> Book(data["title"], data["publication_year"],
                                                  data["author"]))
            /\ next_id' = next_id + 1
            /\ resp' = [kind |-> "book_create", status |-> 201,
                        message |-> "Book created successfully", id |-> next_id] @@ request

\* serializer.save() with every field of the instance reset that was not sent.
UpdatedBookReset(instance, data) ==
    [f \in DOMAIN instance |->
        IF f \in DOMAIN data THEN data[f] ELSE IF f = "title" THEN <<>> ELSE 0]

\* serializer.save() on an instance: the validated fields are assigned.
UpdatedBook(instance, data) ==
    [f \in DOMAIN instance |-> IF f \in DOMAIN data THEN data[f] ELSE instance[f]]

\* BookUpdateView.get_queryset: the books, of the year of the query
\* parameter 'year' when it is supplied.
UpdateQueryset(year, bks) ==
    IF ~year.some THEN DOMAIN bks
    ELSE { b \in DOMAIN bks : bks[b].publication_year = ToNumber(year.v) }

\* BookUpdateView.update, PUT (partial = FALSE) and PATCH (partial = TRUE)
UpdateBook(authenticated, pk, data, partial, year) ==
    LET errors == SerializerErrors(data, partial, authors, current_year)
        request == Request(authenticated, data, partial) @@ [pk |-> pk, year |-> year]
    IN
    /\ UNCHANGED apps
    /\ prev' = [kind |-> "none"]
    /\ fetched' = [kind |-> "none"]
    /\ UNCHANGED <<authors, next_id, current_year, search_lookup>>
    /\ IF ~IsAuthenticated(authenticated)
       THEN /\ resp' = [kind |-> "book_update", status |-> 401] @@ request
            /\ UNCHANGED books
       ELSE IF year.some /\ ~IsNumber(year.v)
       THEN /\ resp' = [kind |-> "book_update", status |-> 500, error |-> "ValueError"]
                          @@ request
            /\ UNCHANGED books
       ELSE IF pk \notin UpdateQueryset(year, books)
       THEN /\ resp' = [kind |-> "book_update", status |-> 404] @@ request
            /\ UNCHANGED books
       ELSE IF errors # {}
       THEN /\ resp' = [kind |-> "book_update", status |-> 400,
                        message |-> "Failed to update book", errors |-> errors] @@ request
            /\ UNCHANGED books
       ELSE /\ books' = [books EXCEPT ![pk] = UpdatedBook(books[pk], data)]
            /\ resp' = [kind |-> "book_update", status |-> 200,
                        message |-> "Book updated successfully"] @@ request

\* destroy that answers 200 and leaves the book in place.
DeleteBookKeeping(authenticated, pk) ==
    /\ UNCHANGED apps
    /\ prev' = [kind |-> "none"]
    /\ fetched' = [kind |-> "none"]
    /\ UNCHANGED <<authors, books, next_id, current_year, search_lookup>>
    /\ resp' = IF ~IsAuthenticated(authenticated)
               THEN [kind |-> "book_delete", status |-> 401,
                     authenticated |-> authenticated, pk |-> pk]
               ELSE IF pk \notin DOMAIN books
               THEN [kind |-> "book_delete", status |-> 404,
                     authenticated |-> authenticated, pk |-> pk]
               ELSE [kind |-> "book_delete", status |-> 200,
                     authenticated |-> authenticated, pk |-> pk, title |-> books[pk].title]

\* BookDeleteView.destroy (permission_classes = [IsAuthenticated])
DeleteBook(authenticated, pk) ==
    /\ UNCHANGED apps
    /\ prev' = [kind |-> "none"]
    /\ fetched' = [kind |-> "none"]
    /\ UNCHANGED <<authors, next_id, current_year, search_lookup>>
    /\ IF ~IsAuthenticated(authenticated)
       THEN /\ resp' = [kind |-> "book_delete", status |-> 401,
                        authenticated |-> authenticated, pk |-> pk]
            /\ UNCHANGED books
       ELSE IF pk \notin DOMAIN books
       THEN /\ resp' = [kind |-> "book_delete", status |-> 404,
                        authenticated |-> authenticated, pk |-> pk]
            /\ UNCHANGED books
       ELSE /\ books' = [b \in DOMAIN books \ {pk} |-> books[b]]
            /\ resp' = [kind |-> "book_delete", status |-> 200,
                        authenticated |-> authenticated, pk |-> pk,
                        title |-> books[pk].title]

\* A detail view that removes what it shows.
BookDetailConsuming(pk) ==
    /\ UNCHANGED apps
    /\ prev' = [kind |-> "none"]
    /\ fetched' = [kind |-> "none"]
    /\ UNCHANGED <<authors, next_id, current_year, search_lookup>>
    /\ IF pk \notin DOMAIN books
       THEN resp' = [kind |-> "book_detail", status |-> 404, pk |-> pk] /\ UNCHANGED books
       ELSE /\ resp' = [kind |-> "book_detail", status |-> 200, pk |-> pk, book |-> books[pk]]
            /\ books' = [b \in DOMAIN books \ {pk} |-> books[b]]

\* BookDetailView (RetrieveAPIView, IsAuthenticatedOrReadOnly): GET by pk
BookDetail(pk) ==
    /\ UNCHANGED apps
    /\ prev' = [kind |-> "none"]
    /\ fetched' = [kind |-> "none"]
    /\ UNCHANGED store
    /\ resp' = IF pk \notin DOMAIN books
               THEN [kind |-> "book_detail", status |-> 404, pk |-> pk]
               ELSE [kind |-> "book_detail", status |-> 200, pk |-> pk, book |-> books[pk]]

\* AuthorDetailView (RetrieveAPIView): the name and the nested books
AuthorDetail(pk) ==
    /\ UNCHANGED apps
    /\ prev' = [kind |-> "none"]
    /\ fetched' = [kind |-> "none"]
    /\ UNCHANGED store
    /\ resp' = IF pk \notin DOMAIN authors
               THEN [kind |-> "author_detail", status |-> 404, pk |-> pk]
               ELSE [kind |-> "author_detail", status |-> 200, pk |-> pk,
                     name |-> authors[pk], books |-> BooksOf(pk, books)]

\* Author.delete() with the books left in place.
DeleteAuthorNoCascade(pk) ==
    /\ pk \in DOMAIN authors
    /\ authors' = [a \in DOMAIN authors \ {pk} |-> authors[a]]
    /\ UNCHANGED <<books, next_id, current_year, search_lookup, resp, prev, fetched>>
    /\ UNCHANGED apps

\* Author.delete(): Book.author is on_delete=CASCADE, the author's books go too.
DeleteAuthor(pk) ==
    /\ pk \in DOMAIN authors
    /\ authors' = [a \in DOMAIN authors \ {pk} |-> authors[a]]
    /\ books' = [b \in DOMAIN books \ BooksOf(pk, books) |-> books[b]]
    /\ UNCHANGED <<next_id, current_year, search_lookup, resp, prev, fetched>>
    /\ UNCHANGED apps

(***************************************************************************)
(* The inputs of the model.                                                *)
(***************************************************************************)
\* Data of write requests: complete, incomplete, blank, future, unknown author.
WriteData ==
    { ("title" :> t) @@ ("publication_year" :> y) @@ ("author" :> a) :
        t \in Titles, y \in BookYears, a \in DOMAIN InitialAuthors }
    \cup { ("title" :> <<"A", "b">>),
           ("title" :> << >>) @@ ("publication_year" :> 1949) @@ ("author" :> 1),
           ("title" :> <<"A", "b">>) @@ ("publication_year" :> StartYear + 1) @@ ("author" :> 1),
           ("title" :> <<"A", "b">>) @@ ("publication_year" :> 1949) @@ ("author" :> 9) }

PrimaryKeys == 1..(MaxBooks + 1)

Writes ==
    \/ \E a \in BOOLEAN, data \in WriteData : CreateBook(a, data)
    \/ \E a \in BOOLEAN, pk \in PrimaryKeys : DeleteBook(a, pk)

\* One parameter name with each of the texts a client sends for it.
Params(name, texts) == { name :> t : t \in texts }

Y1949 == <<"1", "9", "4", "9">>

Y2014 == <<"2", "0", "1", "4">>

\* The declared filters of BookFilter, with matching, boundary and malformed texts.
DeclaredParams ==
    Params("title", { <<"a", "B">> })
    \cup Params("author", { <<"2">>, <<"9">> })
    \cup Params("author_name", { <<"b", "A">> })
    \cup Params("publication_year", { Y1949, <<"a", "b", "c">> })
    \cup Params("year_from", { Y2014, <<"x">> })
    \cup Params("year_to", { Y1949, <<"y">> })
    \cup Params("recent_books", { <<"T", "r", "u", "e">>, <<"f", "a", "l", "s", "e">>, <<"0">> })

\* The filters generated from Meta.fields, and a name no filter has.
OtherParams ==
    Params("title__icontains", { <<"a", "a">> })
    \cup Params("publication_year__gte", { Y2014 })
    \cup Params("publication_year__lte", { Y1949 })
    \cup Params("publication_year__gt", { Y1949 })
    \cup Params("publication_year__lt", { Y2014 })
    \cup Params("author__name__icontains", { <<"a", "B">> })
    \cup Params("author__name", { <<"a", "b">> })
    \cup Params("foo", { Y1949 })

NoParams == << >>

\* Two parameter sets in one request (of one name, the first is kept).
Both(p, q) == p @@ q

FilterRequests ==
    {NoParams} \cup DeclaredParams \cup OtherParams
    \cup { Both(p, q) : p \in DeclaredParams, q \in DeclaredParams \cup OtherParams }

\* The client holds no response: it is free to send its next request.
Idle == resp.kind = "none"

\* The client takes the response of its request.
Receive ==
    /\ ~Idle
    /\ resp' = [kind |-> "none"]
    /\ UNCHANGED apps
    /\ prev' = [kind |-> "none"]
    /\ fetched' = [kind |-> "none"]
    /\ UNCHANGED store

\* Requests to the author list: declared, generated and unknown names.
AuthorParams ==
    Params("name", { <<"b", "A">> })
    \cup Params("has_books", { <<"t", "r", "u", "e">>, <<"F", "a", "l", "s", "e">> })
    \cup Params("name__icontains", { <<"A", "B">> })
    \cup Params("foo", { Y1949 })
    \cup Params("title", { <<"a", "B">> })

AuthorRequests ==
    {NoParams} \cup AuthorParams \cup { Both(p, q) : p \in AuthorParams, q \in AuthorParams }

Next ==
    \/ Idle /\ Writes
    \/ Idle /\ \E req \in FilterRequests : ListBooks(req)
    \/ Idle /\ \E req \in AuthorRequests : ListAuthors(req)
    \/ Receive

Spec == Init /\ [][Next]_vars

(***************************************************************************)
(* Requests that combine a filter, a search term, an ordering and a page.  *)
(***************************************************************************)
SearchParams ==
    Params("search", { <<"b", "A">>, <<"a", "a">>, <<"a", "b", "s">>, <<"b", " ", "a", "a">> })

OrderingParams ==
    Params("ordering", { <<"title">>,
                         <<"-", "publication_year">>,
                         <<"author__name", ",", "-", "publication_year">>,
                         <<"author_name", ",", "-", "publication_year">>,
                         <<"publication_year", ",", " ", "-", "id">> })

PageParams ==
    { ("limit" :> <<"1">>), ("limit" :> <<"1">>) @@ ("offset" :> <<"1">>) }

SomeFilterParams ==
    Params("author_name", { <<"b", "A">> }) \cup Params("year_from", { Y2014 })

QueryRequests ==
    { Both(Both(f, s), Both(o, p)) :
        f \in {NoParams} \cup SomeFilterParams, s \in {NoParams} \cup SearchParams,
        o \in {NoParams} \cup OrderingParams, p \in {NoParams} \cup PageParams }

NextQuery ==
    \/ Idle /\ Writes
    \/ Idle /\ \E req \in QueryRequests : ListBooks(req)
    \/ Receive

SpecQuery == Init /\ [][NextQuery]_vars

(***************************************************************************)
(* A client that repeats its query, and one that walks the pages of a      *)
(* query: offset 0, limit, 2 * limit, ... until the count is reached.      *)
(***************************************************************************)
\* The decimal text of a small number.
DigitText(n) ==
    CASE n = 0 -> <<"0">> [] n = 1 -> <<"1">> [] n = 2 -> <<"2">> [] n = 3 -> <<"3">>
      [] n = 4 -> <<"4">> [] n = 5 -> <<"5">> [] n = 6 -> <<"6">> [] n = 7 -> <<"7">>
      [] n = 8 -> <<"8">> [] n = 9 -> <<"9">>

\* The same request sent again, the store untouched in between.
Repeat ==
    /\ resp.kind = "book_list"
    /\ resp' \in BookListResponses(resp.req, authors, books, current_year, search_lookup)
    /\ UNCHANGED apps
    /\ prev' = resp
    /\ fetched' = [kind |-> "none"]
    /\ UNCHANGED store

PageRequest(base, limit, offset) ==
    ("limit" :> DigitText(limit)) @@ ("offset" :> DigitText(offset)) @@ base

FirstPage(base, limit) ==
    /\ resp' \in BookListResponses(PageRequest(base, limit, 0), authors, books,
                                   current_year, search_lookup)
    /\ fetched' = IF resp'.status = 200
                  THEN [kind |-> "pages", base |-> base, limit |-> limit,
                        rows |-> resp'.results, offset |-> limit, count |-> resp'.count]
                  ELSE [kind |-> "none"]
    /\ UNCHANGED apps
    /\ prev' = [kind |-> "none"]
    /\ UNCHANGED store

NextPage ==
    /\ fetched.kind = "pages"
    /\ fetched.offset < fetched.count
    /\ resp' \in BookListResponses(PageRequest(fetched.base, fetched.limit, fetched.offset),
                                   authors, books, current_year, search_lookup)
    /\ fetched' = [fetched EXCEPT !.rows = fetched.rows \o resp'.results,
                                  !.offset = fetched.offset + fetched.limit,
                                  !.count = resp'.count]
    /\ UNCHANGED apps
    /\ prev' = [kind |-> "none"]
    /\ UNCHANGED store

PageSizes == {1, 2}

SessionRequests ==
    {NoParams} \cup OrderingParams \cup SomeFilterParams
    \cup { Both(f, o) : f \in SomeFilterParams, o \in OrderingParams }

NextSession ==
    \/ Idle /\ Writes
    \/ Idle /\ \E req \in SessionRequests : ListBooks(req)
    \/ Repeat
    \/ Idle /\ \E base \in SessionRequests, limit \in PageSizes : FirstPage(base, limit)
    \/ NextPage
    \/ Receive

SpecSession == Init /\ [][NextSession]_vars

(***************************************************************************)
(* The store under writes: create, update, delete, the removal of an       *)
(* author, the turn of the year, and reads in between.                     *)
(***************************************************************************)
\* The last calendar year of a behaviour.
LastYear == StartYear + 1

\* datetime.now().year after New Year.
YearPasses ==
    /\ current_year < LastYear
    /\ current_year' = current_year + 1
    /\ UNCHANGED <<authors, books, next_id, search_lookup, resp, prev, fetched>>
    /\ UNCHANGED apps

\* Data of create requests: valid, of next year, of a later year and an
\* unknown author, and with two fields missing.
CreateData ==
    { ("title" :> <<"A", "b">>) @@ ("publication_year" :> 1949) @@ ("author" :> 1),
      ("title" :> <<"a", "a", " ", "b">>) @@ ("publication_year" :> 2014) @@ ("author" :> 2),
      ("title" :> <<"A", "b">>) @@ ("publication_year" :> LastYear) @@ ("author" :> 1),
      ("title" :> <<"A", "b">>) @@ ("publication_year" :> LastYear + 1) @@ ("author" :> 9),
      ("title" :> <<"A", "b">>) }

\* Data of update requests, each sent as PUT and as PATCH.
UpdateData ==
    { ("title" :> <<"a", "a", " ", "b">>),
      ("publication_year" :> LastYear),
      ("title" :> <<"a", "a", " ", "b">>) @@ ("publication_year" :> 2014) @@ ("author" :> 2),
      ("title" :> <<"A", "b">>) @@ ("publication_year" :> LastYear + 1) @@ ("author" :> 9) }

\* The query parameter 'year' of an update request.
UpdateYears == { Some(Y1949), Some(<<"x">>) }

StoreWrites ==
    \/ \E a \in BOOLEAN, data \in CreateData : CreateBook(a, data)
    \/ \E a \in BOOLEAN, pk \in PrimaryKeys, data \in UpdateData, partial \in BOOLEAN :
          UpdateBook(a, pk, data, partial, Nothing)
    \/ \E pk \in PrimaryKeys, year \in UpdateYears :
          UpdateBook(TRUE, pk, ("title" :> <<"a", "a", " ", "b">>), TRUE, year)
    \/ \E a \in BOOLEAN, pk \in PrimaryKeys : DeleteBook(a, pk)

\* List requests between the writes: plain, filtered, malformed, searching.
StoreRequests ==
    {NoParams} \cup Params("year_from", { Y2014 }) \cup Params("author", { <<"1">> })
    \cup Params("publication_year", { <<"a", "b", "c">> }) \cup Params("search", { <<"a", "a">> })

StoreAuthorRequests == {NoParams} \cup Params("has_books", { <<"t", "r", "u", "e">> })

StoreReads ==
    \/ \E req \in StoreRequests : ListBooks(req)
    \/ \E req \in StoreAuthorRequests : ListAuthors(req)
    \/ \E pk \in PrimaryKeys : BookDetail(pk)
    \/ \E pk \in DOMAIN InitialAuthors : AuthorDetail(pk)

WriteKinds == {"book_create", "book_update", "book_delete"}

\* The list query a client sends right after the answer to its write.
QueryAfterCached(req) ==
    /\ resp.kind \in WriteKinds
    /\ resp' \in BookListResponses(req, authors, << >>, current_year, search_lookup)
    /\ UNCHANGED apps
    /\ prev' = resp
    /\ fetched' = [kind |-> "none"]
    /\ UNCHANGED store

\* The list query a client sends right after the answer to its write:
\* get_queryset reads Book.objects.all() anew.
QueryAfter(req) ==
    /\ resp.kind \in WriteKinds
    /\ resp' \in BookListResponses(req, authors, books, current_year, search_lookup)
    /\ UNCHANGED apps
    /\ prev' = resp
    /\ fetched' = [kind |-> "none"]
    /\ UNCHANGED store

NextStore ==
    \/ Idle /\ StoreWrites
    \/ Idle /\ StoreReads
    \/ \E req \in {NoParams} \cup Params("year_from", { Y2014 }) : QueryAfter(req)
    \/ Idle /\ \E pk \in DOMAIN InitialAuthors : DeleteAuthor(pk)
    \/ Idle /\ YearPasses
    \/ Receive

SpecStore == Init /\ [][NextStore]_vars

(***************************************************************************)
(* Concurrent list requests.  as_view() builds a view instance for every   *)
(* request, and every backend works on the queryset of that instance: the  *)
(* state of a request is its own, the store is what the requests share.    *)
(* A queryset is lazy: the books are read when the page is taken.          *)
(***************************************************************************)
Stage(c) == running[c].stage

AllIdle == \A c \in Clients : Stage(c) = "idle"

\* BookListView.as_view(): dispatch of a request to a new view instance.
Send(c, req) ==
    /\ Stage(c) = "idle"
    /\ running' = [running EXCEPT ![c] = [stage |-> "filter", req |-> req]]
    /\ UNCHANGED <<api, relations, profiles, shelf, out>>

Finish(c, response) ==
    running' = [running EXCEPT ![c] = [stage |-> "done", req |-> running[c].req,
                                       resp |-> response]]

\* DjangoFilterBackend.filter_queryset: the filter form is validated.
FilterStep(c) ==
    LET req == running[c].req
        errors == FilterErrors(req, authors)
    IN
    /\ Stage(c) = "filter"
    /\ IF errors # {}
       THEN Finish(c, [kind |-> "book_list", req |-> req, status |-> 400, errors |-> errors])
       ELSE running' = [running EXCEPT ![c].stage = "search"]
    /\ UNCHANGED <<api, relations, profiles, shelf, out>>

\* SearchFilter.filter_queryset: the lookups of search_fields are built.
SearchStep(c) ==
    LET req == running[c].req IN
    /\ Stage(c) = "search"
    /\ IF SearchTerms(req) # <<>> /\ UnsupportedLookups(search_lookup) # {}
       THEN Finish(c, [kind |-> "book_list", req |-> req, status |-> 500,
                       error |-> "FieldError"])
       ELSE running' = [running EXCEPT ![c].stage = "ordering"]
    /\ UNCHANGED <<api, relations, profiles, shelf, out>>

\* OrderingFilter.filter_queryset: order_by on the request's queryset.
OrderingStep(c) ==
    /\ Stage(c) = "ordering"
    /\ running' = [running EXCEPT ![c].stage = "page"]
    /\ UNCHANGED <<api, relations, profiles, shelf, out>>

\* paginate_queryset and the serializer: the query is run on the store.
PageStep(c) ==
    /\ Stage(c) = "page"
    /\ \E response \in BookListResponses(running[c].req, authors, books, current_year,
                                         search_lookup) : Finish(c, response)
    /\ UNCHANGED <<api, relations, profiles, shelf, out>>

\* The client takes its response.
Take(c) ==
    /\ Stage(c) = "done"
    /\ running' = [running EXCEPT ![c] = [stage |-> "idle"]]
    /\ UNCHANGED <<api, relations, profiles, shelf, out>>

\* Requests of the concurrent clients: plain, ordered, filtered, malformed,
\* searching.
ConcurrentRequests ==
    {NoParams} \cup Params("ordering", { <<"-", "publication_year">> })
    \cup Params("year_from", { Y2014 }) \cup Params("author", { <<"9">> })
    \cup Params("search", { <<"a", "a">> })

NextConcurrent ==
    \/ Idle /\ AllIdle /\ \E data \in CreateData : CreateBook(TRUE, data)
    \/ Receive
    \/ \E c \in Clients, req \in ConcurrentRequests : Idle /\ Send(c, req)
    \/ \E c \in Clients : FilterStep(c)
    \/ \E c \in Clients : SearchStep(c)
    \/ \E c \in Clients : OrderingStep(c)
    \/ \E c \in Clients : PageStep(c)
    \/ \E c \in Clients : Take(c)

SpecConcurrent == Init /\ [][NextConcurrent]_vars

(***************************************************************************)
(* relationship_app: the tables (models.py) and the query helpers          *)
(* (query_samples.py).  Author and Library names are not unique.           *)
(***************************************************************************)
\* Rows saved to the relationship_app tables in one behaviour.
MaxRows == 4

Names == {"Orwell", "Rowling"}

Rows(rel) ==
    Len(rel.authors) + Len(rel.books) + Len(rel.libraries) + Len(rel.librarians)

\* Author(name=...).save()
AddAuthor(name) ==
    /\ Rows(relations) < MaxRows
    /\ relations' = [relations EXCEPT !.authors = Append(@, name)]
    /\ UNCHANGED <<api, running, profiles, shelf, out>>

\* Book(author=...).save(): author is a foreign key to a saved Author
AddBook(author) ==
    /\ Rows(relations) < MaxRows
    /\ author \in DOMAIN relations.authors
    /\ relations' = [relations EXCEPT !.books = Append(@, author)]
    /\ UNCHANGED <<api, running, profiles, shelf, out>>

\* Library(name=...).save()
AddLibrary(name) ==
    /\ Rows(relations) < MaxRows
    /\ relations' = [relations EXCEPT !.libraries = Append(@, [name |-> name, books |-> {}])]
    /\ UNCHANGED <<api, running, profiles, shelf, out>>

\* library.books.add(book): Library.books is a ManyToManyField
PutBook(library, book) ==
    /\ library \in DOMAIN relations.libraries
    /\ book \in DOMAIN relations.books
    /\ book \notin relations.libraries[library].books
    /\ relations' = [relations EXCEPT !.libraries[library].books = @ \cup {book}]
    /\ UNCHANGED <<api, running, profiles, shelf, out>>

\* Librarian(library=...).save(): library is a OneToOneField, one librarian
\* per library
AddLibrarian(library) ==
    /\ Rows(relations) < MaxRows
    /\ library \in DOMAIN relations.libraries
    /\ \A x \in DOMAIN relations.librarians : relations.librarians[x] # library
    /\ relations' = [relations EXCEPT !.librarians = Append(@, library)]
    /\ UNCHANGED <<api, running, profiles, shelf, out>>

Returns(value) == [kind |-> "return", value |-> value]

Raises(error) == [kind |-> "raise", error |-> error]

\* Book.objects.filter(author=author)
BooksViaFilter(rel, author) == { b \in DOMAIN rel.books : rel.books[b] = author }

\* author.books.all(): the reverse side of Book.author
BooksViaRelated(rel, author) == { b \in DOMAIN rel.books : author = rel.books[b] }

\* get_books_by_author: objects.get raises DoesNotExist for no row (caught)
\* and MultipleObjectsReturned for several (not caught).
get_books_by_author(author_name, rel) ==
    LET found == { a \in DOMAIN rel.authors : rel.authors[a] = author_name } IN
    IF found = {} THEN Returns({})
    ELSE IF Cardinality(found) > 1 THEN Raises("MultipleObjectsReturned")
    ELSE LET author == CHOOSE a \in found : TRUE
             books_via_filter == BooksViaFilter(rel, author)
         IN IF ~rel.accessor THEN Raises("AttributeError")
            ELSE Returns(IF books_via_filter # {} THEN books_via_filter
                         ELSE BooksViaRelated(rel, author))

\* get_books_in_library
get_books_in_library(library_name, rel) ==
    LET found == { l \in DOMAIN rel.libraries : rel.libraries[l].name = library_name } IN
    IF found = {} THEN Returns({})
    ELSE IF Cardinality(found) > 1 THEN Raises("MultipleObjectsReturned")
    ELSE LET library == CHOOSE l \in found : TRUE
             books_via_filter == { b \in DOMAIN rel.books : b \in rel.libraries[library].books }
             books_via_related == rel.libraries[library].books
         IN Returns(IF books_via_filter # {} THEN books_via_filter ELSE books_via_related)

\* get_librarian_for_library
get_librarian_for_library(library_name, rel) ==
    LET found == { l \in DOMAIN rel.libraries : rel.libraries[l].name = library_name } IN
    IF found = {} THEN Returns(Nothing)
    ELSE IF Cardinality(found) > 1 THEN Raises("MultipleObjectsReturned")
    ELSE LET library == CHOOSE l \in found : TRUE
             librarians == { x \in DOMAIN rel.librarians : rel.librarians[x] = library }
         IN IF librarians = {} THEN Returns(Nothing)
            ELSE Returns(Some(CHOOSE x \in librarians : TRUE))

\* A call of a query helper.
Call(helper, name) ==
    /\ out' = [kind |-> helper, name |-> name,
               result |-> CASE helper = "get_books_by_author" ->
                                  get_books_by_author(name, relations)
                            [] helper = "get_books_in_library" ->
                                  get_books_in_library(name, relations)
                            [] helper = "get_librarian_for_library" ->
                                  get_librarian_for_library(name, relations)]
    /\ UNCHANGED <<api, running, relations, profiles, shelf>>

Helpers == {"get_books_by_author", "get_books_in_library", "get_librarian_for_library"}

\* The state of the relationship_app project before anything is saved, with
\* or without the reverse accessor.
InitLibrary ==
    /\ authors = InitialAuthors
    /\ books = << >>
    /\ next_id = 1
    /\ current_year = StartYear
    /\ search_lookup = FALSE
    /\ resp = [kind |-> "none"]
    /\ prev = [kind |-> "none"]
    /\ fetched = [kind |-> "none"]
    /\ running = [c \in Clients |-> [stage |-> "idle"]]
    /\ relations \in { [NoRelations EXCEPT !.accessor = a] : a \in BOOLEAN }
    /\ profiles = NoProfiles
    /\ shelf = NoShelf
    /\ out = [kind |-> "none"]

NextLibrary ==
    \/ \E name \in Names : AddAuthor(name)
    \/ \E author \in 1..MaxRows : AddBook(author)
    \/ \E name \in Names : AddLibrary(name)
    \/ \E library \in 1..MaxRows, book \in 1..MaxRows : PutBook(library, book)
    \/ \E library \in 1..MaxRows : AddLibrarian(library)
    \/ \E helper \in Helpers, name \in Names : Call(helper, name)

SpecLibrary == InitLibrary /\ [][NextLibrary]_vars

(***************************************************************************)
(* relationship_app: role checks and the views they guard (views.py).      *)
(* views.py imports UserProfile from models.py, which does not define it;  *)
(* profiles.model says whether the build's models.py does.                 *)
(***************************************************************************)
Roles == {"Admin", "Librarian", "Member", "Guest"}

Visitors == Users \cup {"anonymous"}

\* UserProfile(user=..., role=...).save(), or a change of its role
SaveProfile(user, role) ==
    /\ profiles.model
    /\ profiles' = [profiles EXCEPT !.role[user] = Some(role)]
    /\ UNCHANGED <<api, running, relations, shelf, out>>

\* user.userprofile.delete()
DeleteProfile(user) ==
    /\ profiles.model
    /\ profiles.role[user].some
    /\ profiles' = [profiles EXCEPT !.role[user] = Nothing]
    /\ UNCHANGED <<api, running, relations, shelf, out>>

\* hasattr(user, "userprofile"): AnonymousUser has no such attribute, a user
\* without a profile raises RelatedObjectDoesNotExist, an AttributeError
has_userprofile(user, prof) == user \in Users /\ prof.role[user].some

is_admin(user, prof) == has_userprofile(user, prof) /\ prof.role[user].v = "Admin"

is_librarian(user, prof) == has_userprofile(user, prof) /\ prof.role[user].v = "Librarian"

is_member_AnyRole(user, prof) == has_userprofile(user, prof)

is_member(user, prof) == has_userprofile(user, prof) /\ prof.role[user].v = "Member"

RoleViews == {"admin_view", "librarian_view", "member_view"}

\* The test of @user_passes_test on each view
test_func(view, user, prof) ==
    CASE view = "admin_view" -> is_admin(user, prof)
      [] view = "librarian_view" -> is_librarian(user, prof)
      [] view = "member_view" -> is_member(user, prof)

\* user_passes_test: the view renders (200) when the test passes, otherwise
\* the visitor is redirected to the login page (302).  Without UserProfile
\* in models.py the views module cannot be imported (500).
Visit(view, user) ==
    /\ out' = [kind |-> view, user |-> user,
               status |-> IF ~profiles.model THEN 500
                          ELSE IF test_func(view, user, profiles) THEN 200
                          ELSE 302]
    /\ UNCHANGED <<api, running, relations, profiles, shelf>>

InitRoles ==
    /\ authors = InitialAuthors
    /\ books = << >>
    /\ next_id = 1
    /\ current_year = StartYear
    /\ search_lookup = FALSE
    /\ resp = [kind |-> "none"]
    /\ prev = [kind |-> "none"]
    /\ fetched = [kind |-> "none"]
    /\ running = [c \in Clients |-> [stage |-> "idle"]]
    /\ relations = NoRelations
    /\ profiles \in { [NoProfiles EXCEPT !.model = defined] : defined \in BOOLEAN }
    /\ shelf = NoShelf
    /\ out = [kind |-> "none"]

NextRoles ==
    \/ \E user \in Users, role \in Roles : SaveProfile(user, role)
    \/ \E user \in Users : DeleteProfile(user)
    \/ \E view \in RoleViews, user \in Visitors : Visit(view, user)

SpecRoles == InitRoles /\ [][NextRoles]_vars

(***************************************************************************)
(* bookshelf: the permission-gated book views (views.py) and BookForm      *)
(* (forms.py).  A row of the Book table is the saved form with its pk.     *)
(***************************************************************************)
BookFormFields == {"title", "author", "published_year"}

Permissions == {"bookshelf.can_view_book", "bookshelf.can_create_book",
                "bookshelf.can_edit_book", "bookshelf.can_delete_book"}

\* request.user: AnonymousUser, or a logged-in user with the permissions
\* has_perm grants.
RequestUsers ==
    {[authenticated |-> FALSE, perms |-> {}]}
    \cup { [authenticated |-> TRUE, perms |-> perms] :
             perms \in {{}, Permissions} \cup { {p} : p \in Permissions } }

\* request.POST for BookForm; a field left out or blank is ""
Forms ==
    { [title |-> "Dune", author |-> "Herbert", published_year |-> "1965"],
      [title |-> "Emma", author |-> "Austen", published_year |-> "1815"],
      [title |-> "", author |-> "Austen", published_year |-> "1815"] }

Methods == {"GET", "POST"}

\* form.is_valid(): every field of the form is required
is_valid(form) == \A f \in BookFormFields : form[f] # ""

Row(pk, form) ==
    [pk |-> pk, title |-> form.title, author |-> form.author,
     published_year |-> form.published_year]

Pks(db) == { row.pk : row \in db.books }

\* render(...)
Render(template, db) == [status |-> 200, to |-> template, shelf |-> db]

\* redirect(...)
Redirect(to, db) == [status |-> 302, to |-> to, shelf |-> db]

\* @login_required: an anonymous visitor is sent to the login page
login_required(request, db, response) ==
    IF request.user.authenticated THEN response ELSE Redirect("login", db)

\* @permission_required(perm, raise_exception=True): PermissionDenied (403)
permission_required(perm, request, db, response) ==
    IF perm \in request.user.perms THEN response
    ELSE [status |-> 403, to |-> "", shelf |-> db]

\* get_object_or_404(Book, pk=pk)
get_object_or_404(pk, db, response) ==
    IF pk \in Pks(db) THEN response
    ELSE [status |-> 404, to |-> "", shelf |-> db]

book_list(request, db) ==
    login_required(request, db,
      permission_required("bookshelf.can_view_book", request, db,
        Render("book_list", db)))

book_create(request, db) ==
    login_required(request, db,
      permission_required("bookshelf.can_create_book", request, db,
        IF request.method = "POST" /\ is_valid(request.form)
        THEN Redirect("book_list",
                      [books |-> db.books \cup {Row(db.next, request.form)},
                       next |-> db.next + 1])
        ELSE Render("book_form", db)))

book_update(request, db) ==
    login_required(request, db,
      permission_required("bookshelf.can_edit_book", request, db,
        get_object_or_404(request.pk, db,
          IF request.method = "POST" /\ is_valid(request.form)
          THEN Redirect("book_list",
                        [db EXCEPT !.books =
                            { row \in @ : row.pk # request.pk }
                            \cup {Row(request.pk, request.form)}])
          ELSE Render("book_form", db))))

book_delete_AnyMethod(request, db) ==
    login_required(request, db,
      permission_required("bookshelf.can_delete_book", request, db,
        get_object_or_404(request.pk, db,
          Redirect("book_list",
                   [db EXCEPT !.books = { row \in @ : row.pk # request.pk }]))))

book_delete(request, db) ==
    login_required(request, db,
      permission_required("bookshelf.can_delete_book", request, db,
        get_object_or_404(request.pk, db,
          IF request.method = "POST"
          THEN Redirect("book_list",
                        [db EXCEPT !.books = { row \in @ : row.pk # request.pk }])
          ELSE Render("book_confirm_delete", db))))

ShelfViews == {"book_list", "book_create", "book_update", "book_delete"}

\* The URL conf: the view of a request
Dispatch(request, db) ==
    CASE request.view = "book_list" -> book_list(request, db)
      [] request.view = "book_create" -> book_create(request, db)
      [] request.view = "book_update" -> book_update(request, db)
      [] request.view = "book_delete" -> book_delete(request, db)

\* request.POST of a request without form data
NoForm == [title |-> "", author |-> "", published_year |-> ""]

\* Requests: book_list and book_create take no pk (written 1), and only a
\* POST to book_create or book_update carries a form.
ShelfRequests ==
    { request \in [view : ShelfViews, method : Methods, user : RequestUsers,
                   pk : 1..(MaxBooks + 1), form : Forms \cup {NoForm}] :
        /\ request.view \in {"book_list", "book_create"} => request.pk = 1
        /\ request.form # NoForm <=>
              (request.method = "POST" /\ request.view \in {"book_create", "book_update"}) }

\* One request to a bookshelf view and its response.
ShelfRequest(request) ==
    LET response == Dispatch(request, shelf) IN
    /\ response.shelf.next <= MaxBooks + 1
    /\ shelf' = response.shelf
    /\ out' = [kind |-> request.view, request |-> request,
               status |-> response.status, to |-> response.to]
    /\ UNCHANGED <<api, running, relations, profiles>>

NextShelf == \E request \in ShelfRequests : ShelfRequest(request)

InitShelf ==
    /\ authors = InitialAuthors
    /\ books = << >>
    /\ next_id = 1
    /\ current_year = StartYear
    /\ search_lookup = FALSE
    /\ resp = [kind |-> "none"]
    /\ prev = [kind |-> "none"]
    /\ fetched = [kind |-> "none"]
    /\ running = [c \in Clients |-> [stage |-> "idle"]]
    /\ relations = NoRelations
    /\ profiles = NoProfiles
    /\ shelf = NoShelf
    /\ out = [kind |-> "none"]

SpecShelf == InitShelf /\ [][NextShelf]_vars

(***************************************************************************)
(* Properties.                                                             *)
(***************************************************************************)
IsBookList == resp.kind = "book_list"

\* The records a response carries.
Returned == IF resp.status = 200 THEN Range(resp.results) ELSE {}

NoDuplicates(rows) == \A i, j \in DOMAIN rows : i # j => rows[i] # rows[j]

SchemaBookParams ==
    {"title", "author", "author_name", "publication_year", "year_from", "year_to",
     "recent_books"}

NumericBookParams == {"publication_year", "year_from", "year_to"}

\* The predicate a supplied parameter of the schema puts on book b.
\* The texts of a flag that is set, and of one that is cleared.
TrueTexts == { <<"t", "r", "u", "e">>, <<"T", "r", "u", "e">> }

FalseTexts == { <<"f", "a", "l", "s", "e">>, <<"F", "a", "l", "s", "e">> }

ParamSatisfied(b, name, text) ==
    LET year == books[b].publication_year IN
    CASE name = "title" -> IContains(books[b].title, text)
      [] name = "author" -> books[b].author = ToNumber(text)
      [] name = "author_name" -> IContains(authors[books[b].author], text)
      [] name = "publication_year" -> year = ToNumber(text)
      [] name = "year_from" -> year >= ToNumber(text)
      [] name = "year_to" -> year <= ToNumber(text)
      [] name = "recent_books" ->
            (text \in TrueTexts) => year >= current_year - 10

SatisfiesAll(b, req) == \A n \in DOMAIN req : ParamSatisfied(b, n, req[n])

\* A non-empty combination of the schema's parameters with well-formed numbers.
ValidCombination(req) ==
    /\ DOMAIN req # {}
    /\ DOMAIN req \subseteq SchemaBookParams
    /\ \A n \in DOMAIN req \cap (NumericBookParams \cup {"author"}) : IsNumber(req[n])

\* C1: for every store and every valid non-empty combination of the schema's
\* book filter parameters, the list query returns exactly the books that
\* satisfy all supplied predicates (none that fails one, none missing), each
\* once; it succeeds whenever the author id, if supplied, is an author's.
C1_SoundAndComplete ==
    (IsBookList /\ ValidCombination(resp.req)) =>
        /\ Returned = { b \in DOMAIN books : SatisfiesAll(b, resp.req) }
        /\ ( ("author" \in DOMAIN resp.req => ToNumber(resp.req["author"]) \in DOMAIN authors)
               => resp.status = 200 /\ NoDuplicates(resp.results) )

\* Two predicates at once keep one book and drop another.
C1_Witness ==
    /\ IsBookList
    /\ ValidCombination(resp.req)
    /\ Cardinality(DOMAIN resp.req) = 2
    /\ resp.status = 200
    /\ Returned # {}
    /\ Returned # DOMAIN books

\* Supplied numeric parameters of the schema whose text is no number.
Malformed(req) == { n \in DOMAIN req \cap NumericBookParams : ~IsNumber(req[n]) }

\* C9: a list query with a numeric filter parameter (publication_year,
\* year_from, year_to) whose text is no number fails with an error that names
\* the offending parameter (and no well-formed numeric one), and returns no
\* records.
C9_InvalidParameter ==
    (IsBookList /\ Malformed(resp.req) # {}) =>
        /\ resp.status = 400
        /\ resp.errors \cap NumericBookParams = Malformed(resp.req)
        /\ Returned = {}

\* A malformed year beside a well-formed one, on a store that has books.
C9_Witness ==
    /\ IsBookList
    /\ Cardinality(Malformed(resp.req)) = 1
    /\ (DOMAIN resp.req \cap NumericBookParams) \ Malformed(resp.req) # {}
    /\ resp.status = 400
    /\ DOMAIN books # {}

\* Every supplied filter parameter that takes a number (or an author pk) and
\* whose text is none.
AllMalformed(req) ==
    { n \in DOMAIN req : /\ n \in DOMAIN BookFilter
                         /\ BookFilter[n].kind \in {"number", "choice"}
                         /\ req[n] # <<>>
                         /\ ~IsNumber(req[n]) }

\* C10: when a request carries several invalid filter parameters, the error
\* names every one of them, not only the first.
C10_AllErrorsReported ==
    (IsBookList /\ AllMalformed(resp.req) # {}) =>
        /\ resp.status = 400
        /\ AllMalformed(resp.req) \subseteq resp.errors

\* Two invalid parameters in one request, both named.
C10_Witness ==
    /\ IsBookList
    /\ Cardinality(AllMalformed(resp.req)) = 2
    /\ resp.status = 400
    /\ Cardinality(resp.errors) = 2

IsList == resp.kind \in {"book_list", "author_list"}

\* The responses the endpoint of the last request may give to req.
Responses(kind, req) ==
    IF kind = "book_list"
    THEN BookListResponses(req, authors, books, current_year, search_lookup)
    ELSE AuthorListResponses(req, authors, books)

Without(req, names) == [n \in DOMAIN req \ names |-> req[n]]

\* The response with its request replaced.
Answering(r, req) == [r EXCEPT !.req = req]

\* The parameters the spec's schema recognizes on an endpoint.
SchemaParams(kind) ==
    IF kind = "book_list" THEN SchemaBookParams ELSE {"name", "has_books"}

\* Every parameter an endpoint reads: its filter set's filters (declared, and
\* generated from Meta.fields), search, ordering and the pagination bounds.
ReadParams(kind) ==
    (IF kind = "book_list"
     THEN SchemaBookParams \cup
          {"title__icontains", "publication_year__gte", "publication_year__lte",
           "publication_year__gt", "publication_year__lt", "author__name",
           "author__name__icontains"}
     ELSE {"name", "has_books", "name__icontains"})
        \cup {"search", "ordering", "offset", "limit"}

\* C8 as stated: a parameter outside the schema's list is ignored, so the
\* response is a response to the request without it.
C8_AsStated ==
    IsList =>
        Answering(resp, Without(resp.req, DOMAIN resp.req \ SchemaParams(resp.kind)))
            \in Responses(resp.kind, Without(resp.req, DOMAIN resp.req \ SchemaParams(resp.kind)))

\* C8, amended: a parameter that is no filter of the endpoint's filter set
\* (declared or generated from Meta.fields), nor search, ordering or a
\* pagination bound, is ignored: the request succeeds or fails exactly as it
\* does without it, with the same records; and a request without parameters
\* returns every record.
C8_UnknownIgnored ==
    IsList =>
        /\ Answering(resp, Without(resp.req, DOMAIN resp.req \ ReadParams(resp.kind)))
              \in Responses(resp.kind, Without(resp.req, DOMAIN resp.req \ ReadParams(resp.kind)))
        /\ (DOMAIN resp.req \cap ReadParams(resp.kind) = {}) =>
              /\ resp.status = 200
              /\ Range(resp.results) =
                    (IF resp.kind = "book_list" THEN DOMAIN books ELSE DOMAIN authors)

\* An unknown parameter beside a filter that drops a book.
C8_Witness ==
    /\ resp.kind = "book_list"
    /\ "foo" \in DOMAIN resp.req
    /\ resp.status = 200
    /\ Returned # {}
    /\ Returned # DOMAIN books

\* The sort keys an ordering text of allowed fields asks for.
Key(field, desc) == [field |-> field, desc |-> desc]

RequestedKeys(text) ==
    CASE text = <<"title">> -> << Key("title", FALSE) >>
      [] text = <<"-", "publication_year">> -> << Key("publication_year", TRUE) >>
      [] text = <<"author__name", ",", "-", "publication_year">> ->
            << Key("author__name", FALSE), Key("publication_year", TRUE) >>
      [] text = <<"publication_year", ",", " ", "-", "id">> ->
            << Key("publication_year", FALSE), Key("id", TRUE) >>
      [] OTHER -> << >>

KeyOf(b, field) ==
    CASE field = "title" -> books[b].title
      [] field = "publication_year" -> books[b].publication_year
      [] field = "author__name" -> authors[books[b].author]
      [] field = "id" -> b

KeyLess(field, x, y) ==
    IF field \in {"title", "author__name"} THEN StrLess(x, y) ELSE x < y

\* a may stand directly before b: on the first key where they differ, a comes
\* first in that key's direction.
RECURSIVE InOrder(_, _, _)
InOrder(a, b, keys) ==
    IF keys = <<>> THEN TRUE
    ELSE LET k == Head(keys) IN
         IF KeyOf(a, k.field) = KeyOf(b, k.field) THEN InOrder(a, b, Tail(keys))
         ELSE IF k.desc THEN KeyLess(k.field, KeyOf(b, k.field), KeyOf(a, k.field))
         ELSE KeyLess(k.field, KeyOf(a, k.field), KeyOf(b, k.field))

SortedBy(rows, keys) ==
    \A i \in 1..(Len(rows) - 1) : InOrder(rows[i], rows[i + 1], keys)

HasOrdering ==
    /\ "ordering" \in DOMAIN resp.req
    /\ RequestedKeys(resp.req["ordering"]) # <<>>

\* C3: with an ordering of allowed fields, any two adjacent records a, b of
\* the returned sequence are in the order of the first key, and when they tie
\* on it, in the order of the second key in its own direction (k1 ascending
\* and k2 descending: a.k1 <= b.k1, and a.k2 >= b.k2 when a.k1 = b.k1); with
\* one key the sequence is sorted by it in the requested direction.
C3_OrderingLaw ==
    (IsBookList /\ HasOrdering /\ resp.status = 200) =>
        SortedBy(resp.results, RequestedKeys(resp.req["ordering"]))

\* Two books of one author, returned in descending year.
C3_Witness ==
    /\ IsBookList
    /\ resp.status = 200
    /\ "ordering" \in DOMAIN resp.req
    /\ resp.req["ordering"] = <<"author__name", ",", "-", "publication_year">>
    /\ Len(resp.results) = 2
    /\ books[resp.results[1]].author = books[resp.results[2]].author
    /\ books[resp.results[1]].publication_year > books[resp.results[2]].publication_year

\* The search condition of the spec: the whole term is a case-insensitive
\* substring of the title or of the author's name.
TermAppears(b, term) ==
    \/ IContains(books[b].title, term)
    \/ IContains(authors[books[b].author], term)

\* The books a request should match: all its predicates, and the search.
Matches(req) ==
    { b \in DOMAIN books :
        /\ \A n \in DOMAIN req \cap SchemaBookParams : ParamSatisfied(b, n, req[n])
        /\ "search" \in DOMAIN req => TermAppears(b, req["search"]) }

\* A request of schema parameters with well-formed values, a search term, an
\* ordering and a page.
WellFormed(req) ==
    /\ DOMAIN req \subseteq SchemaBookParams \cup {"search", "ordering", "offset", "limit"}
    /\ \A n \in DOMAIN req \cap NumericBookParams : IsNumber(req[n])
    /\ "author" \in DOMAIN req =>
          IsNumber(req["author"]) /\ ToNumber(req["author"]) \in DOMAIN authors

Unpaged(req) == DOMAIN req \cap {"offset", "limit"} = {}

\* C2: with a search term, the query retains exactly the records (among
\* those passing the filters) in which the whole term is a case-insensitive
\* substring of the title or of the author name.
C2_SearchSubstring ==
    (IsBookList /\ WellFormed(resp.req) /\ Unpaged(resp.req) /\ "search" \in DOMAIN resp.req) =>
        /\ resp.status = 200
        /\ Range(resp.results) = Matches(resp.req)

\* C6: the count returned with a list query is the number of records that
\* match the filters and the search, whatever the page; when nothing
\* matches, the result is empty and the count is 0.
C6_CountOfMatches ==
    (IsBookList /\ WellFormed(resp.req)) =>
        /\ resp.status = 200
        /\ resp.count = Cardinality(Matches(resp.req))
        /\ (Matches(resp.req) = {}) => resp.results = <<>>

\* The page of a request cut from the full sequence: skip offset records,
\* keep at most limit.
Cut(full, req) ==
    LET skip == IF "offset" \in DOMAIN req THEN ToNumber(req["offset"]) ELSE 0
        last == IF "limit" \in DOMAIN req /\ skip + ToNumber(req["limit"]) < Len(full)
                THEN skip + ToNumber(req["limit"]) ELSE Len(full)
    IN SubSeq(full, skip + 1, last)

\* C7: the result is the page cut from the records that satisfy all
\* predicates and the search, sorted by the requested keys.
C7_FixedOrder ==
    (IsBookList /\ WellFormed(resp.req) /\ HasOrdering) =>
        /\ resp.status = 200
        /\ \E full \in Arrangements(Matches(resp.req)) :
              /\ SortedBy(full, RequestedKeys(resp.req["ordering"]))
              /\ resp.results = Cut(full, resp.req)

\* C4: the same list query issued twice against an unchanged store yields
\* the identical ordered sequence, also when records tie on every sort key.
C4_Idempotent ==
    prev.kind = "book_list" => resp = prev

\* The client has fetched the last page of its query.
AllPagesFetched == fetched.kind = "pages" /\ fetched.offset >= fetched.count

\* C5: the pages fetched at offsets 0, limit, 2 * limit, ... concatenate to
\* the full filtered and sorted sequence: every matching record on exactly
\* one page, in sorted order.
C5_PagesReconstruct ==
    AllPagesFetched =>
        /\ NoDuplicates(fetched.rows)
        /\ Range(fetched.rows) = Matches(fetched.base)
        /\ SortedBy(fetched.rows,
                    IF "ordering" \in DOMAIN fetched.base
                    THEN RequestedKeys(fetched.base["ordering"])
                    ELSE << Key("title", FALSE) >>)


\* C11: filtering books by the id of an author that is not in the store
\* succeeds and returns the empty sequence with count 0.
C11_UnknownAuthorEmpty ==
    ( /\ IsBookList
      /\ DOMAIN resp.req = {"author"}
      /\ IsNumber(resp.req["author"])
      /\ ToNumber(resp.req["author"]) \notin DOMAIN authors ) =>
        /\ resp.status = 200
        /\ resp.results = <<>>
        /\ resp.count = 0

\* A request of year constraints only, with well-formed values.
YearParams == {"recent_books", "year_from", "year_to"}

YearRequest(req) ==
    /\ "recent_books" \in DOMAIN req
    /\ DOMAIN req \subseteq YearParams
    /\ \A n \in DOMAIN req \ {"recent_books"} : IsNumber(req[n])

\* The year range a request asks for: the intersection of its constraints.
InYearRange(year, req) ==
    /\ req["recent_books"] \in TrueTexts => year >= current_year - 10
    /\ "year_from" \in DOMAIN req => year >= ToNumber(req["year_from"])
    /\ "year_to" \in DOMAIN req => year <= ToNumber(req["year_to"])

\* C12: with recent_books true the query returns exactly the books of
\* publication_year >= current_year - 10 that pass the other predicates, with
\* recent_books false it imposes nothing; with year_from / year_to the range
\* is the intersection, and an empty intersection is an empty result, not an
\* error.
C12_RecentBooks ==
    (IsBookList /\ YearRequest(resp.req)) =>
        /\ resp.status = 200
        /\ Returned = { b \in DOMAIN books : InYearRange(books[b].publication_year, resp.req) }

\* recent_books with year_to below the threshold: nothing of a store that
\* holds a recent and an old book is returned, and the answer is 200.
C12_Witness ==
    /\ IsBookList
    /\ DOMAIN resp.req = {"recent_books", "year_to"}
    /\ resp.req["recent_books"] \in TrueTexts
    /\ resp.status = 200
    /\ resp.results = <<>>
    /\ \E b \in DOMAIN books : books[b].publication_year = current_year - 10
    /\ \E b \in DOMAIN books : books[b].publication_year < current_year - 10

IsAuthorList == resp.kind = "author_list"

HasBook(a) == \E b \in DOMAIN books : books[b].author = a

\* C13: has_books=true returns exactly the authors with at least one book,
\* each once; has_books=false exactly the authors with none; without
\* has_books every author is returned.  The two sets are disjoint and cover
\* the authors.
C13_HasBooks ==
    (IsAuthorList /\ DOMAIN resp.req \subseteq {"has_books"}) =>
        /\ resp.status = 200
        /\ NoDuplicates(resp.results)
        /\ Range(resp.results) =
              IF DOMAIN resp.req = {} THEN DOMAIN authors
              ELSE IF resp.req["has_books"] \in TrueTexts
              THEN { a \in DOMAIN authors : HasBook(a) }
              ELSE IF resp.req["has_books"] \in FalseTexts
              THEN { a \in DOMAIN authors : ~HasBook(a) }
              ELSE DOMAIN authors

\* An author of two books is returned once, the author of none is not.
C13_Witness ==
    /\ IsAuthorList
    /\ DOMAIN resp.req = {"has_books"}
    /\ resp.req["has_books"] \in TrueTexts
    /\ Len(resp.results) = 1
    /\ Cardinality({ b \in DOMAIN books : books[b].author = resp.results[1] }) = 2


ReadKinds == {"book_list", "book_detail", "author_list", "author_detail"}

\* C14: a list or detail request, whatever its parameters and its answer,
\* leaves the books and the authors of the store and all their fields as
\* they were.
C14_PureReads ==
    [][resp'.kind \in ReadKinds => UNCHANGED <<authors, books, next_id>>]_vars

\* A malformed list request was answered while the store holds a book.
C14_Witness ==
    /\ IsBookList
    /\ resp.status = 400
    /\ DOMAIN books # {}

\* A list request of well-formed filters only.
PlainRequest(req) == DOMAIN req \subseteq {"year_from"}

\* What a completed write changed is in the answer of the query after it.
Reflected(write, returned, req) ==
    CASE write.kind = "book_delete" -> write.status = 200 => write.pk \notin returned
      [] write.kind = "book_create" ->
            write.status = 201 =>
                (write.id \in returned <=>
                    \A n \in DOMAIN req : ParamSatisfied(write.id, n, req[n]))
      [] write.kind = "book_update" ->
            (write.status = 200 /\ "publication_year" \in DOMAIN write.data) =>
                (write.pk \in returned <=>
                    \A n \in DOMAIN req :
                        write.data["publication_year"] >= ToNumber(req[n]))
      [] OTHER -> TRUE

\* C15: the answer of every list query is computed from the store as it is
\* at the time of the query: a book created, changed or deleted by a
\* completed write shows in the queries after it.
C15_NoCaching ==
    (IsBookList /\ PlainRequest(resp.req)) =>
        /\ resp.status = 200
        /\ Returned = { b \in DOMAIN books : SatisfiesAll(b, resp.req) }
        /\ resp.count = Cardinality(Returned)
        /\ Reflected(prev, Returned, resp.req)

\* An update moved a book into the range of the query that follows it.
C15_Witness ==
    /\ IsBookList
    /\ resp.status = 200
    /\ DOMAIN resp.req = {"year_from"}
    /\ prev.kind = "book_update"
    /\ prev.status = 200
    /\ prev.partial
    /\ DOMAIN prev.data = {"publication_year"}
    /\ Returned = {prev.pk}
    /\ Cardinality(DOMAIN books) = 2

\* A create or update that reached the serializer.
Validated(r) == r.kind \in {"book_create", "book_update"} /\ r.status \in {200, 201, 400}

Rejects(r, field) == r.status = 400 /\ field \in r.errors

\* C16: every stored book has a publication_year that did not exceed the
\* calendar year of its creation or last update; a create or update with a
\* later publication_year is rejected with an error on publication_year, one
\* with the current year is not.
C16_NoFutureYear ==
    /\ \A b \in DOMAIN books : books[b].publication_year <= current_year
    /\ (Validated(resp) /\ "publication_year" \in DOMAIN resp.data) =>
          IF resp.data["publication_year"] > current_year
          THEN Rejects(resp, "publication_year")
          ELSE ~Rejects(resp, "publication_year")

\* After New Year an update to the year that has begun is accepted.
C16_Witness ==
    /\ resp.kind = "book_update"
    /\ resp.status = 200
    /\ "publication_year" \in DOMAIN resp.data
    /\ resp.data["publication_year"] = current_year
    /\ current_year > StartYear

\* C17: every book references an author of the store; a create or a full
\* update without author, and any create or update that names an author not
\* in the store, is rejected; removing an author removes the books that
\* reference it.
C17_AuthorExists ==
    /\ \A b \in DOMAIN books : books[b].author \in DOMAIN authors
    /\ (Validated(resp) /\ "author" \notin DOMAIN resp.data /\ ~resp.partial) =>
          Rejects(resp, "author")
    /\ (Validated(resp) /\ "author" \in DOMAIN resp.data
          /\ resp.data["author"] \notin DOMAIN authors) => Rejects(resp, "author")

\* An author was removed, a book of another author remains, and a create for
\* the removed author is rejected.
C17_Witness ==
    /\ resp.kind = "book_create"
    /\ "author" \in DOMAIN resp.data
    /\ resp.data["author"] \in DOMAIN InitialAuthors \ DOMAIN authors
    /\ Rejects(resp, "author")
    /\ DOMAIN books # {}
    /\ next_id > Cardinality(DOMAIN books) + 1


BookFields == {"title", "publication_year", "author"}

\* Data a write accepts in the store and year of the state after the step.
ValidData(data) ==
    /\ DOMAIN data = BookFields
    /\ data["title"] # <<>>
    /\ data["publication_year"] <= current_year'
    /\ data["author"] \in DOMAIN authors'

\* The answer of the step is the answer to a write request.
Answered(kind) == resp'.kind = kind /\ resp' # resp

\* C18: a create, update or delete of an unauthenticated client is answered
\* 401 and leaves the books unchanged, while its plain list and detail reads
\* are answered 200; the create and the update of an authenticated client
\* with valid data are answered 201 and 200.
C18_WritesNeedUser ==
    [][ /\ (resp'.kind \in WriteKinds /\ resp' # resp /\ ~resp'.authenticated) =>
              resp'.status = 401 /\ UNCHANGED <<authors, books, next_id>>
        /\ (Answered("book_list") /\ resp'.req = NoParams) => resp'.status = 200
        /\ (Answered("book_detail") /\ resp'.pk \in DOMAIN books) => resp'.status = 200
        /\ (Answered("book_create") /\ resp'.authenticated /\ ValidData(resp'.data)) =>
              resp'.status = 201
        /\ (Answered("book_update") /\ resp'.authenticated /\ ValidData(resp'.data)
              /\ resp'.pk \in DOMAIN books /\ ~resp'.year.some) => resp'.status = 200
      ]_vars

\* The delete of an existing book by an unauthenticated client was refused.
C18_Witness ==
    /\ resp.kind = "book_delete"
    /\ ~resp.authenticated
    /\ resp.status = 401
    /\ resp.pk \in DOMAIN books

\* The fields of a write request that are missing (unless the update is
\* partial) or carry a publication_year after the current year.
BadFields(r) ==
    { f \in BookFields :
        \/ f \notin DOMAIN r.data /\ ~r.partial
        \/ f = "publication_year" /\ f \in DOMAIN r.data /\ r.data[f] > current_year }

FailureMessage(kind) ==
    IF kind = "book_create" THEN "Failed to create book" ELSE "Failed to update book"

\* C19: a create or update whose data fails validation is answered 400 with
\* the message 'Failed to create book' / 'Failed to update book' and an
\* errors map with an entry for every invalid or missing field, and changes
\* nothing in the store.
C19_InvalidWrite ==
    [][ (resp'.kind \in {"book_create", "book_update"} /\ resp' # resp
           /\ resp'.authenticated /\ resp'.status \notin {404, 500}
           /\ BadFields(resp') # {}) =>
              /\ resp'.status = 400
              /\ resp'.message = FailureMessage(resp'.kind)
              /\ BadFields(resp') \subseteq resp'.errors
              /\ UNCHANGED <<authors, books, next_id>>
      ]_vars

\* A full update with only the title was refused for both missing fields.
C19_Witness ==
    /\ resp.kind = "book_update"
    /\ resp.status = 400
    /\ ~resp.partial
    /\ resp.pk \in DOMAIN books
    /\ DOMAIN resp.data = {"title"}
    /\ resp.errors = {"publication_year", "author"}
    /\ books[resp.pk].title # resp.data["title"]

\* C20: a successful PATCH changes exactly the fields it supplies, every
\* other field of the book and every other book stay as they were; a
\* successful PUT sets the fields to the supplied values; the answer carries
\* the message 'Book updated successfully'.
C20_UpdateFrame ==
    [][ (Answered("book_update") /\ resp'.status = 200) =>
           LET pk == resp'.pk
               data == resp'.data
           IN /\ resp'.message = "Book updated successfully"
              /\ DOMAIN books' = DOMAIN books
              /\ \A b \in DOMAIN books \ {pk} : books'[b] = books[b]
              /\ \A f \in BookFields :
                    books'[pk][f] = IF f \in DOMAIN data THEN data[f] ELSE books[pk][f]
              /\ ~resp'.partial => books'[pk] = Book(data["title"], data["publication_year"],
                                                     data["author"])
      ]_vars

\* A PATCH of the title alone: year and author of the book are not those a
\* reset would leave, and a second book is in the store.
C20_Witness ==
    /\ resp.kind = "book_update"
    /\ resp.status = 200
    /\ resp.partial
    /\ DOMAIN resp.data = {"title"}
    /\ books[resp.pk].title = resp.data["title"]
    /\ books[resp.pk].publication_year = 1949
    /\ Cardinality(DOMAIN books) = 2


C22_AuthorNameOrdering ==
    ( /\ IsBookList
      /\ resp.status = 200
      /\ "ordering" \in DOMAIN resp.req
      /\ resp.req["ordering"] = <<"author_name", ",", "-", "publication_year">> ) =>
        SortedBy(resp.results, << Key("author__name", FALSE), Key("publication_year", TRUE) >>)

\* C26: an update request with the query parameter 'year' for a book whose
\* publication_year is not that year is answered 404 (and changes nothing).
C26_YearGate ==
    ( /\ resp.kind = "book_update"
      /\ resp.authenticated
      /\ resp.year.some
      /\ resp.pk \in DOMAIN books
      /\ (IsNumber(resp.year.v) => books[resp.pk].publication_year # ToNumber(resp.year.v)) ) =>
        resp.status = 404


Done(c) == running[c].stage = "done"

IsCall(helper) == out.kind = helper

AuthorsNamed(name) == { a \in DOMAIN relations.authors : relations.authors[a] = name }

LibrariesNamed(name) ==
    { l \in DOMAIN relations.libraries : relations.libraries[l].name = name }

\* What the helper called last returned is the canonical answer over the
\* tables.
CanonicalLookup ==
    /\ IsCall("get_books_by_author") =>
          out.result = Returns({ b \in DOMAIN relations.books :
                                   relations.books[b] \in AuthorsNamed(out.name) })
    /\ IsCall("get_books_in_library") =>
          out.result = Returns(UNION { relations.libraries[l].books :
                                         l \in LibrariesNamed(out.name) })
    /\ IsCall("get_librarian_for_library") =>
          /\ out.result.kind = "return"
          /\ IF \E x \in DOMAIN relations.librarians :
                    relations.librarians[x] \in LibrariesNamed(out.name)
             THEN /\ out.result.value.some
                  /\ relations.librarians[out.result.value.v] \in LibrariesNamed(out.name)
             ELSE out.result.value = Nothing

\* C24: a call of a query helper answers from the tables as they are:
\* get_books_by_author returns exactly the books whose author has the
\* name, the empty list when no author has it; get_books_in_library returns
\* exactly the books of the library of the name, the empty list for an
\* unknown library; get_librarian_for_library returns the librarian of the
\* library, or None when there is no such library or it has no librarian.
C24_CanonicalLookup == [][relations' = relations => CanonicalLookup']_vars


\* The roles whose check holds for a visitor.
RolesHeld(user) ==
    (IF is_admin(user, profiles) THEN {"Admin"} ELSE {})
    \cup (IF is_librarian(user, profiles) THEN {"Librarian"} ELSE {})
    \cup (IF is_member(user, profiles) THEN {"Member"} ELSE {})

Profiled(user) == user \in Users /\ profiles.role[user].some

ViewRole(view) ==
    CASE view = "admin_view" -> "Admin"
      [] view = "librarian_view" -> "Librarian"
      [] view = "member_view" -> "Member"

\* At most one role check holds for a visitor, and none without a profile.
Exclusive ==
    \A user \in Visitors :
        /\ Cardinality(RolesHeld(user)) <= 1
        /\ ~Profiled(user) => RolesHeld(user) = {}

\* The visitor the last request admitted has the role of the view.
Admitted ==
    (out.kind \in RoleViews /\ out.status = 200) =>
        /\ out.user \in Users
        /\ profiles.role[out.user] = Some(ViewRole(out.kind))

\* C25: for every user at most one of is_admin, is_librarian, is_member
\* holds, and none holds for a user without a profile; after any sequence
\* of requests and profile changes, a request is admitted to admin_view,
\* librarian_view or member_view only for a user whose role is 'Admin',
\* 'Librarian' or 'Member' respectively.
C25_RolesExclusive == [][Exclusive' /\ (profiles' = profiles => Admitted')]_vars

\* A user with role 'Admin' is admitted to admin_view while another user
\* has a profile with a role that no check knows.
C25_Witness ==
    /\ out.kind = "admin_view" /\ out.status = 200
    /\ Profiled(out.user) /\ profiles.role[out.user].v = "Admin"
    /\ \E user \in Users : Profiled(user) /\ profiles.role[user].v = "Guest"


Holds(request, perm) == request.user.authenticated /\ perm \in request.user.perms

\* C27: the Book table changes only through a POST by a logged-in user
\* holding the permission of the view: book_delete removes exactly the book
\* of the request, book_create adds one book from a valid form, book_update
\* rewrites the book of the request from a valid form; no book disappears in
\* any other way.  A GET to book_delete by such a user shows the
\* confirmation page, and a request without the permission is refused (403,
\* or the login page for an anonymous visitor); both leave the table as it
\* was.
C27_GatedWrites ==
    [][LET request == out'.request IN
       /\ shelf' # shelf =>
            /\ request.method = "POST"
            /\ \/ /\ request.view = "book_delete"
                  /\ Holds(request, "bookshelf.can_delete_book")
                  /\ request.pk \in Pks(shelf)
                  /\ shelf'.books = { row \in shelf.books : row.pk # request.pk }
               \/ /\ request.view = "book_create"
                  /\ Holds(request, "bookshelf.can_create_book")
                  /\ is_valid(request.form)
                  /\ shelf.books \subseteq shelf'.books
                  /\ shelf'.books \ shelf.books = {Row(shelf.next, request.form)}
               \/ /\ request.view = "book_update"
                  /\ Holds(request, "bookshelf.can_edit_book")
                  /\ is_valid(request.form)
                  /\ Pks(shelf') = Pks(shelf)
                  /\ Row(request.pk, request.form) \in shelf'.books
                  /\ \A row \in shelf.books : row.pk # request.pk => row \in shelf'.books
       /\ (/\ request.view = "book_delete"
           /\ request.method = "GET"
           /\ Holds(request, "bookshelf.can_delete_book")
           /\ request.pk \in Pks(shelf)) =>
            (out'.status = 200 /\ out'.to = "book_confirm_delete" /\ shelf' = shelf)
       /\ (/\ request.view = "book_delete"
           /\ ~Holds(request, "bookshelf.can_delete_book")) =>
            /\ shelf' = shelf
            /\ out'.status = IF request.user.authenticated THEN 403 ELSE 302
            /\ ~request.user.authenticated => out'.to = "login"
      ]_vars

\* A book has been deleted by a POST to book_delete while another book
\* stays on the shelf.
C27_Witness ==
    /\ out.kind = "book_delete" /\ out.status = 302 /\ out.to = "book_list"
    /\ out.request.method = "POST"
    /\ shelf.next > 1
    /\ out.request.pk \notin Pks(shelf)
    /\ shelf.books # {}

====
